---- MODULE Spec2Model ----
(***************************************************************************)
(* Model of server/configuration.go of mattermost-plugin-analytics: the    *)
(* configuration snapshot, its validation, the lock-guarded getter and     *)
(* setter, and the OnConfigurationChange hook with the resolution of       *)
(* Team/Channel pairs through the host API.                                *)
(*                                                                         *)
(* Go strings are modelled as sequences of one-character TLA+ strings, so  *)
(* that strings.Count and strings.Split are computed, not assumed.         *)
(***************************************************************************)
EXTENDS Naturals, Sequences, FiniteSets, TLC

\* ------------------------------------------------------------------ bounds

\* Number of goroutines on which the host runs hooks (one hook call each).
NThreads == 2

\* Longest TeamsChannels string drawn in the sequential specification.
MaxLen == 3

Threads == 1..NThreads

\* ----------------------------------------------------------------- strings

Chars == {"a", "/", ","}

EmptyStr == << >>

RECURSIVE StringsUpTo(_)
StringsUpTo(n) ==
    IF n = 0 THEN {EmptyStr}
    ELSE LET shorter == StringsUpTo(n - 1)
         IN  shorter \cup {Append(s, c) : s \in {x \in shorter : Len(x) = n - 1}, c \in Chars}

\* strings.Count(s, sep) for a one-character sep.
RECURSIVE Count(_, _)
Count(s, ch) ==
    IF s = EmptyStr THEN 0
    ELSE (IF Head(s) = ch THEN 1 ELSE 0) + Count(Tail(s), ch)

\* strings.Split(s, sep) for a one-character sep: the pieces between the
\* separators, empty pieces kept; Split("", sep) is one empty piece.
RECURSIVE SplitFrom(_, _, _)
SplitFrom(s, sep, piece) ==
    IF s = EmptyStr THEN << piece >>
    ELSE IF Head(s) = sep THEN << piece >> \o SplitFrom(Tail(s), sep, EmptyStr)
    ELSE SplitFrom(Tail(s), sep, Append(piece, Head(s)))

Split(s, sep) == SplitFrom(s, sep, EmptyStr)

\* ----------------------------------------------------------- configuration

Fields == {"Username", "TeamsChannels", "BotUsername", "BotIconURL"}

\* type configuration struct: four string fields.
MkConfiguration(u, tc, b, i) ==
    [Username |-> u, TeamsChannels |-> tc, BotUsername |-> b, BotIconURL |-> i]

\* &configuration{} / new(configuration): every field the empty string.
ZeroConfiguration == MkConfiguration(EmptyStr, EmptyStr, EmptyStr, EmptyStr)

\* reflect.ValueOf(*configuration).NumField(): the number of fields of the
\* struct type, whatever their values.
NumField == Cardinality(Fields)

ErrUsername == "Need a Username to make posts as"
ErrTeamsChannels == "Need TeamsChannels to post in"
ErrFormat == "TeamsChannels must be in ofrm TeamName/ChannelName"
ErrBotUsername == "Need BotUsername"
ErrBotIconURL == "Need BotIconURL"
NoError == "nil"

ValidationErrors == {ErrUsername, ErrTeamsChannels, ErrFormat, ErrBotUsername, ErrBotIconURL}

\* The field names that occur in the text of each validation error.
ErrorNames(err) ==
    CASE err = ErrUsername -> {"Username"}
      [] err = ErrTeamsChannels -> {"TeamsChannels"}
      [] err = ErrFormat -> {"TeamsChannels"}
      [] err = ErrBotUsername -> {"BotUsername", "Username"}
      [] err = ErrBotIconURL -> {"BotIconURL"}
      [] OTHER -> {}

\* configuration.IsValid, with the BotUsername check left out.
IsValidNoBotUsername(c) ==
    IF c.Username = EmptyStr THEN ErrUsername
    ELSE IF c.TeamsChannels = EmptyStr THEN ErrTeamsChannels
    ELSE IF Count(c.TeamsChannels, ",") + 1 # Count(c.TeamsChannels, "/") THEN ErrFormat
    ELSE IF c.BotIconURL = EmptyStr THEN ErrBotIconURL
    ELSE NoError

\* configuration.IsValid: the first failing check decides the error.
IsValid(c) ==
    IF c.Username = EmptyStr THEN ErrUsername
    ELSE IF c.TeamsChannels = EmptyStr THEN ErrTeamsChannels
    ELSE IF Count(c.TeamsChannels, ",") + 1 # Count(c.TeamsChannels, "/") THEN ErrFormat
    ELSE IF c.BotUsername = EmptyStr THEN ErrBotUsername
    ELSE IF c.BotIconURL = EmptyStr THEN ErrBotIconURL
    ELSE NoError

\* ---------------------------------------------------------------- host API

ErrLoad == "failed to load plugin configuration"
ErrUser == "Unable to find user with configured username"
ErrBadFormat == "Bad formatted TeamsChannels"
ErrTeam == "Unable to find team with configured team"
ErrChannel == "Unable to find channel with configured channel"

\* user.Id, team.Id and channel.Id as the host returns them: identifiers that
\* are determined by the names looked up.
UserIdOf(name) == << "U" >> \o name
TeamIdOf(name) == << "T" >> \o name
ChannelIdOf(teamId, name) == << "C" >> \o teamId \o << "/" >> \o name

\* The configurations the host's store may hold when several hooks run
\* concurrently: two valid ones that resolve to different identifiers, and
\* one that fails validation.
ConfigA == MkConfiguration(<< "a" >>, << "a", "/", "a" >>, << "a" >>, << "a" >>)
ConfigB ==
    MkConfiguration(<< "a", "a" >>, << "a", "/", "a", ",", "a", "a", "/", "a" >>,
                    << "a" >>, << "a" >>)
ConfigBad == MkConfiguration(<< "a" >>, << "a", "/", "a" >>, EmptyStr, << "a" >>)

SampleConfigurations == {ConfigA, ConfigB, ConfigBad}

\* Every configuration whose TeamsChannels is a string of at most MaxLen
\* characters and whose other fields are empty or "a".
AllConfigurations ==
    {MkConfiguration(u, tc, b, i) :
        u \in {EmptyStr, << "a" >>}, tc \in StringsUpTo(MaxLen),
        b \in {EmptyStr, << "a" >>}, i \in {EmptyStr, << "a" >>}}

\* ------------------------------------------------------------------- state

Nil == 0

\* The value a torn (racing, unsynchronised) store may leave behind.
Torn == << "?" >>

VARIABLES
    heap,           \* the configuration objects allocated so far, by reference:
                    \* a hook call allocates at most one object, which is
                    \* referred to by the number of the call's goroutine
    configuration,  \* p.configuration: Nil or a reference into heap
    BotUserID,      \* p.BotUserID
    ChannelsID,     \* p.ChannelsID
    writer,         \* the goroutine holding p.configurationLock for writing
    readers,        \* the goroutines holding it for reading
    pendingW,       \* the goroutines blocked in Lock()
    crashed,        \* the process was aborted by a panic
    pc,             \* each goroutine's position
    loc,            \* each goroutine's local variables
    hist            \* what each hook call has done so far

vars ==
    << heap, configuration, BotUserID, ChannelsID, writer, readers, pendingW,
       crashed, pc, loc, hist >>

shared == << heap, configuration, BotUserID, ChannelsID >>
lock == << writer, readers, pendingW >>

InitLoc ==
    [kind |-> "none", cfg |-> Nil, err |-> "none", i |-> 0, ids |-> << >>,
     team |-> EmptyStr, ret |-> << >>, got |-> Nil, seen |-> << >>, waitOn |-> 0]

InitHist ==
    [calls |-> << >>, wrote |-> {}, setOutcome |-> "none", curAtSet |-> Nil,
     observed |-> ZeroConfiguration, loaded |-> FALSE, valid |-> "none"]

\* A Plugin value as the host constructs it: no configuration published,
\* zero-valued BotUserID and ChannelsID.
Constructed ==
    /\ heap = << >>
    /\ configuration = Nil
    /\ BotUserID = EmptyStr
    /\ ChannelsID = << >>

\* The plugin after an earlier OnConfigurationChange call that loaded ConfigA
\* and returned nil: its snapshot is published and BotUserID and ChannelsID
\* hold what was resolved from it.
FirstRef == NThreads + 1

Activated ==
    /\ heap = (FirstRef :> ConfigA)
    /\ configuration = FirstRef
    /\ BotUserID = UserIdOf(ConfigA.Username)
    /\ ChannelsID = << ChannelIdOf(TeamIdOf(<< "a" >>), << "a" >>) >>

\* No hook is running and the lock is free; the plugin has just been
\* constructed, or has been given its first configuration.
Init ==
    /\ Constructed \/ Activated
    /\ writer = 0
    /\ readers = {}
    /\ pendingW = {}
    /\ crashed = FALSE
    /\ pc = [t \in Threads |-> "idle"]
    /\ loc = [t \in Threads |-> InitLoc]
    /\ hist = [t \in Threads |-> InitHist]

\* The positions at which a hook is inside a call of the host API.
HostCallPcs == {"load", "user", "team", "channel"}

Finished == {"done", "panicked"}

\* The host may run another hook while it services an API call; the call
\* returns once that hook has returned.
HostReady(t) == IF loc[t].waitOn = 0 THEN TRUE ELSE pc[loc[t].waitOn] \in Finished

\* The callers a hook started now may be nested in: none (0), or a goroutine
\* inside a host API call that is not yet waiting for a hook.
Callers(t) ==
    {0} \cup {u \in Threads \ {t} : pc[u] \in HostCallPcs /\ loc[u].waitOn = 0}

\* The host starts a hook on a free goroutine. Goroutines are
\* interchangeable, so the lowest-numbered free one is taken.
StartHook(t, caller, kind, first, arg) ==
    /\ ~crashed
    /\ pc[t] = "idle"
    /\ \A u \in Threads : u < t => pc[u] # "idle"
    /\ pc' = [pc EXCEPT ![t] = first]
    /\ loc' = [u \in Threads |->
                 IF u = t THEN [loc[u] EXCEPT !.kind = kind, !.cfg = arg]
                 ELSE IF u = caller THEN [loc[u] EXCEPT !.waitOn = t]
                 ELSE loc[u]]

\* The heap with the object at reference r holding c.
Allocate(r, c) == (r :> c) @@ heap

Entries(r) == Split(heap[r].TeamsChannels, ",")

\* The goroutine is inside GetUserByUsername; on success it stores
\* p.BotUserID next (line 117).
AboutToStoreBotUserID(u) == pc[u] = "user"

\* The goroutine is inside GetChannelByName for the last entry; on success
\* it stores p.ChannelsID next (line 123).
AboutToStoreChannelsID(u) == pc[u] = "channel" /\ loc[u].i = Len(Entries(loc[u].cfg))

\* The stores of lines 117 and 123 are made outside the lock: when another
\* goroutine is about to execute the same store the two race, and the field
\* ends up with the value stored or with a torn one.
BotUserIDOutcomes(t, v) ==
    IF \E u \in Threads \ {t} : AboutToStoreBotUserID(u) THEN {v, Torn} ELSE {v}

ChannelsIDOutcomes(t, v) ==
    IF \E u \in Threads \ {t} : AboutToStoreChannelsID(u) THEN {v, << Torn >>} ELSE {v}

\* ------------------------------------------------- sync.RWMutex operations

\* Lock(): the writer announces itself, which blocks new readers ...
LockRequest(t) ==
    /\ pendingW' = pendingW \cup {t}
    /\ UNCHANGED << writer, readers >>

\* ... and proceeds once no reader and no writer holds the lock.
LockAcquire(t) ==
    /\ t \in pendingW
    /\ writer = 0
    /\ readers = {}
    /\ writer' = t
    /\ pendingW' = pendingW \ {t}
    /\ UNCHANGED readers

\* Unlock(), skipped: the lock stays held by t.
UnlockForgotten(t) == UNCHANGED << writer, readers, pendingW >>

\* Unlock().
Unlock(t) ==
    /\ writer = t
    /\ writer' = 0
    /\ UNCHANGED << readers, pendingW >>

\* RLock(): blocked by a writer holding or waiting for the lock.
RLock(t) ==
    /\ writer = 0
    /\ pendingW = {}
    /\ readers' = readers \cup {t}
    /\ UNCHANGED << writer, pendingW >>

\* RUnlock().
RUnlock(t) ==
    /\ t \in readers
    /\ readers' = readers \ {t}
    /\ UNCHANGED << writer, pendingW >>

\* ---------------------------------------------------------- getConfiguration

FieldOrder == << "Username", "TeamsChannels", "BotUsername", "BotIconURL" >>

\* A hook that reads the configuration starts: getConfiguration is entered.
StartReader(t) ==
    /\ \E caller \in Callers(t) : StartHook(t, caller, "read", "rlock", Nil)
    /\ UNCHANGED << shared, lock, crashed, hist >>

\* Lines 61-68: p.configurationLock.RLock() is acquired and p.configuration
\* is read under it; a nil p.configuration yields a fresh zero-valued
\* snapshot, otherwise the published reference is returned.
GetRLock(t) ==
    /\ ~crashed
    /\ pc[t] = "rlock"
    /\ RLock(t)
    /\ IF configuration = Nil
         THEN /\ heap' = Allocate(t, ZeroConfiguration)
              /\ loc' = [loc EXCEPT ![t].got = t]
              /\ hist' = [hist EXCEPT ![t].observed = ZeroConfiguration]
         ELSE /\ heap' = heap
              /\ loc' = [loc EXCEPT ![t].got = configuration]
              /\ hist' = [hist EXCEPT ![t].observed = heap[configuration]]
    /\ pc' = [pc EXCEPT ![t] = "runlock"]
    /\ UNCHANGED << configuration, BotUserID, ChannelsID, crashed >>

\* The deferred p.configurationLock.RUnlock() (line 62); the reference is
\* returned to the hook.
GetRUnlock(t) ==
    /\ ~crashed
    /\ pc[t] = "runlock"
    /\ RUnlock(t)
    /\ pc' = [pc EXCEPT ![t] = "use"]
    /\ UNCHANGED << shared, crashed, loc, hist >>

\* The hook reads the fields of the snapshot it was given, one at a time,
\* through the reference and without the lock.
UseField(t) ==
    /\ ~crashed
    /\ pc[t] = "use"
    /\ LET k == Len(loc[t].seen) + 1
       IN  /\ loc' = [loc EXCEPT ![t].seen = Append(@, heap[loc[t].got][FieldOrder[k]])]
           /\ pc' = [pc EXCEPT ![t] = IF k = Len(FieldOrder) THEN "done" ELSE "use"]
    /\ UNCHANGED << shared, lock, crashed, hist >>

\* ---------------------------------------------------------- setConfiguration

\* Lines 84-95 with the guard's exemption read as "every field is empty".
setConfigurationZeroExempt(cur, arg) ==
    IF arg # Nil /\ cur = arg
      THEN (IF heap[arg] = ZeroConfiguration THEN "return" ELSE "panic")
      ELSE "assign"

\* Lines 84-95: what setConfiguration does with its argument, given the
\* current p.configuration.
setConfigurationOutcome(cur, arg) ==
    IF arg # Nil /\ cur = arg
      THEN (IF NumField = 0 THEN "return" ELSE "panic")
      ELSE "assign"

\* A caller passes setConfiguration nil, a reference it already holds, or a
\* snapshot it has just allocated.
StartSetConfiguration(t) ==
    /\ \/ \E r \in {Nil} \cup DOMAIN heap :
            /\ StartHook(t, 0, "set", "lock", r)
            /\ heap' = heap
       \/ \E c \in SampleConfigurations \cup {ZeroConfiguration} :
            /\ StartHook(t, 0, "set", "lock", t)
            /\ heap' = Allocate(t, c)
    /\ UNCHANGED << configuration, BotUserID, ChannelsID, lock, crashed, hist >>

\* p.configurationLock.Lock() (line 81) is called.
SetLock(t) ==
    /\ ~crashed
    /\ pc[t] = "lock"
    /\ LockRequest(t)
    /\ pc' = [pc EXCEPT ![t] = "locked"]
    /\ UNCHANGED << shared, crashed, loc, hist >>

\* Lines 81-95: the lock is acquired and, under it, the guard is evaluated
\* and p.configuration assigned.
SetBody(t) ==
    /\ ~crashed
    /\ pc[t] = "locked"
    /\ LockAcquire(t)
    /\ LET outcome == setConfigurationOutcome(configuration, loc[t].cfg)
       IN  /\ configuration' = IF outcome = "assign" THEN loc[t].cfg ELSE configuration
           /\ hist' = [hist EXCEPT ![t].setOutcome = outcome,
                                   ![t].curAtSet = configuration]
    /\ pc' = [pc EXCEPT ![t] = "unlock"]
    /\ UNCHANGED << heap, BotUserID, ChannelsID, crashed, loc >>

\* Lines 109-111, taken without the early return.
AfterValidationIgnored(err) == "user"

\* Lines 109-111: a validation error ends the hook.
AfterValidation(err) == IF err # NoError THEN "done" ELSE "user"

\* The deferred p.configurationLock.Unlock() (line 82). Then the panic of
\* line 92 aborts the process, or setConfiguration returns: to its caller,
\* or into OnConfigurationChange, which validates its snapshot (lines
\* 109-111).
SetUnlock(t) ==
    /\ ~crashed
    /\ pc[t] = "unlock"
    /\ Unlock(t)
    /\ crashed' = (hist[t].setOutcome = "panic")
    /\ IF hist[t].setOutcome = "panic"
         THEN /\ pc' = [pc EXCEPT ![t] = "panicked"]
              /\ UNCHANGED << loc, hist >>
       ELSE IF loc[t].kind = "change"
         THEN LET err == IsValid(heap[loc[t].cfg])
              IN  /\ pc' = [pc EXCEPT ![t] = AfterValidation(err)]
                  /\ loc' = [loc EXCEPT ![t].err = err]
                  /\ hist' = [hist EXCEPT ![t].valid = err]
       ELSE /\ pc' = [pc EXCEPT ![t] = "done"]
            /\ UNCHANGED << loc, hist >>
    /\ UNCHANGED shared

\* ----------------------------------------------------- OnConfigurationChange

\* var configuration = p.configuration: the published object is reused.
ReuseConfiguration(t) ==
    IF configuration = Nil THEN t ELSE configuration

\* var configuration = new(configuration) (line 100): a fresh object.
NewConfiguration(t) == t

\* The host invokes OnConfigurationChange.
StartOnConfigurationChange(t) ==
    /\ \E caller \in Callers(t) : StartHook(t, caller, "change", "load", Nil)
    /\ UNCHANGED << shared, lock, crashed, hist >>

\* Lines 100-105: p.API.LoadPluginConfiguration fills the object with a
\* configuration of the host's store, or fails.
LoadPluginConfiguration(t, store) ==
    /\ ~crashed
    /\ pc[t] = "load"
    /\ HostReady(t)
    /\ \/ /\ pc' = [pc EXCEPT ![t] = "done"]
          /\ loc' = [loc EXCEPT ![t].waitOn = 0, ![t].err = ErrLoad]
          /\ UNCHANGED << heap, hist >>
       \/ \E c \in store :
            LET r == NewConfiguration(t)
            IN  /\ heap' = Allocate(r, c)
                /\ pc' = [pc EXCEPT ![t] = "lock"]
                /\ loc' = [loc EXCEPT ![t].waitOn = 0, ![t].cfg = r]
                /\ hist' = [hist EXCEPT ![t].loaded = TRUE]
    /\ UNCHANGED << configuration, BotUserID, ChannelsID, lock, crashed >>

Call(api, entry, arg) == [api |-> api, entry |-> entry, arg |-> arg]

\* Lines 119-123 with the slice stored whatever the error.
StoresChannelsIDAlways(err) == TRUE

\* Lines 119-123: the slice parseChannelsFromConfig returns is stored in
\* p.ChannelsID only when it returns no error.
StoresChannelsID(err) == err = NoError

\* parseChannelsFromConfig returns (ids, err) to OnConfigurationChange, which
\* returns (lines 119-125). h is the call's history up to the return.
ParseReturns(t, i, ids, err, h) ==
    /\ pc' = [pc EXCEPT ![t] = "done"]
    /\ loc' = [loc EXCEPT ![t].waitOn = 0, ![t].i = i, ![t].ids = ids,
                          ![t].ret = ids, ![t].err = err]
    /\ IF StoresChannelsID(err)
         THEN /\ ChannelsID' \in ChannelsIDOutcomes(t, ids)
              /\ hist' = [hist EXCEPT ![t] = [h EXCEPT !.wrote = @ \cup {"ChannelsID"}]]
         ELSE /\ ChannelsID' = ChannelsID
              /\ hist' = [hist EXCEPT ![t] = h]

\* len(v) != 2 written as len(v) < 2.
BadlyFormattedTooFew(v) == Len(v) < 2

\* len(v) != 2 (line 132).
BadlyFormatted(v) == Len(v) # 2

\* Lines 130-134 and 147: the head of the loop over the comma-separated
\* entries, reached with index i and the identifiers ids resolved so far; the
\* loop ends, or entry i is split on "/" and checked.
ParseEntry(t, i, ids, h) ==
    LET entries == Entries(loc[t].cfg)
    IN  IF i > Len(entries)
          THEN ParseReturns(t, i, ids, NoError, h)
        ELSE IF BadlyFormatted(Split(entries[i], "/"))
          THEN ParseReturns(t, i, ids, ErrBadFormat, h)
        ELSE /\ pc' = [pc EXCEPT ![t] = "team"]
             /\ loc' = [loc EXCEPT ![t].waitOn = 0, ![t].i = i, ![t].ids = ids]
             /\ hist' = [hist EXCEPT ![t] = h]
             /\ ChannelsID' = ChannelsID

\* Lines 113-117: p.API.GetUserByUsername; on success p.BotUserID is stored
\* and parseChannelsFromConfig is entered (lines 119, 129-134).
GetUserByUsername(t) ==
    /\ ~crashed
    /\ pc[t] = "user"
    /\ HostReady(t)
    /\ LET name == heap[loc[t].cfg].Username
           h == [hist[t] EXCEPT !.calls = Append(@, Call("GetUserByUsername", 0, name))]
       IN  \/ /\ pc' = [pc EXCEPT ![t] = "done"]
              /\ loc' = [loc EXCEPT ![t].waitOn = 0, ![t].err = ErrUser]
              /\ hist' = [hist EXCEPT ![t] = h]
              /\ UNCHANGED << BotUserID, ChannelsID >>
           \/ /\ BotUserID' \in BotUserIDOutcomes(t, UserIdOf(name))
              /\ ParseEntry(t, 1, << >>, [h EXCEPT !.wrote = @ \cup {"BotUserID"}])
    /\ UNCHANGED << heap, configuration, lock, crashed >>

\* Lines 135-140: p.API.GetTeamByName(teamName).
GetTeamByName(t) ==
    /\ ~crashed
    /\ pc[t] = "team"
    /\ HostReady(t)
    /\ LET i == loc[t].i
           teamName == Split(Entries(loc[t].cfg)[i], "/")[1]
           h == [hist[t] EXCEPT !.calls = Append(@, Call("GetTeamByName", i, teamName))]
       IN  \/ ParseReturns(t, i, loc[t].ids, ErrTeam, h)
           \/ /\ pc' = [pc EXCEPT ![t] = "channel"]
              /\ loc' = [loc EXCEPT ![t].waitOn = 0, ![t].team = TeamIdOf(teamName)]
              /\ hist' = [hist EXCEPT ![t] = h]
              /\ UNCHANGED ChannelsID
    /\ UNCHANGED << heap, configuration, BotUserID, lock, crashed >>

\* Lines 136 and 141-146: p.API.GetChannelByName(team.Id, channelName, false);
\* on success the identifier is appended and the loop goes on.
GetChannelByName(t) ==
    /\ ~crashed
    /\ pc[t] = "channel"
    /\ HostReady(t)
    /\ LET i == loc[t].i
           channelName == Split(Entries(loc[t].cfg)[i], "/")[2]
           h == [hist[t] EXCEPT !.calls = Append(@, Call("GetChannelByName", i, channelName))]
       IN  \/ ParseReturns(t, i, loc[t].ids, ErrChannel, h)
           \/ ParseEntry(t, i + 1, Append(loc[t].ids, ChannelIdOf(loc[t].team, channelName)), h)
    /\ UNCHANGED << heap, configuration, BotUserID, lock, crashed >>

\* ---------------------------------------------------------- specifications

\* Hooks run concurrently on the host's goroutines: OnConfigurationChange
\* with the configurations of the store, and hooks that read the snapshot.
Next ==
    \E t \in Threads :
        \/ StartOnConfigurationChange(t)
        \/ LoadPluginConfiguration(t, SampleConfigurations)
        \/ SetLock(t)
        \/ SetBody(t)
        \/ SetUnlock(t)
        \/ GetUserByUsername(t)
        \/ GetTeamByName(t)
        \/ GetChannelByName(t)
        \/ StartReader(t)
        \/ GetRLock(t)
        \/ GetRUnlock(t)
        \/ UseField(t)

Spec == Init /\ [][Next]_vars

\* setConfiguration and getConfiguration called concurrently with arbitrary
\* references.
NextSet ==
    \E t \in Threads :
        \/ StartSetConfiguration(t)
        \/ SetLock(t)
        \/ SetBody(t)
        \/ SetUnlock(t)
        \/ StartReader(t)
        \/ GetRLock(t)
        \/ GetRUnlock(t)
        \/ UseField(t)

SpecSet == Init /\ [][NextSet]_vars

\* One OnConfigurationChange call on its own, over every configuration of
\* AllConfigurations.
MainThread == CHOOSE t \in Threads : \A u \in Threads : t <= u

NextSeq ==
    \E t \in {MainThread} :
        \/ StartOnConfigurationChange(t)
        \/ LoadPluginConfiguration(t, AllConfigurations)
        \/ SetLock(t)
        \/ SetBody(t)
        \/ SetUnlock(t)
        \/ GetUserByUsername(t)
        \/ GetTeamByName(t)
        \/ GetChannelByName(t)

SpecSeq == Init /\ [][NextSeq]_vars

\* ------------------------------------------------------------------ claims

Changes == {t \in Threads : loc[t].kind = "change"}
Readers == {t \in Threads : loc[t].kind = "read"}
Setters == {t \in Threads : loc[t].kind = "set"}

\* C1, as stated: setConfiguration given the current reference panics unless
\* the snapshot is zero-valued, in which case it returns without panicking;
\* given any other reference it replaces the current one.
C1_ZeroValueExempt ==
    \A t \in Setters :
        hist[t].setOutcome # "none" =>
            LET arg == loc[t].cfg
                cur == hist[t].curAtSet
            IN  IF arg # Nil /\ arg = cur
                  THEN IF heap[arg] = ZeroConfiguration
                         THEN hist[t].setOutcome = "return"
                         ELSE hist[t].setOutcome = "panic"
                  ELSE hist[t].setOutcome = "assign"

\* C1, amended: setConfiguration panics exactly when it is given a non-nil
\* reference equal to the current one, a zero-valued snapshot included (the
\* exemption never applies: the struct has four fields); the panic leaves
\* p.configuration as it was and aborts the process; any other call assigns
\* its argument to p.configuration.
C1_SameReferencePanics ==
    \A t \in Setters :
        hist[t].setOutcome # "none" =>
            LET arg == loc[t].cfg
                cur == hist[t].curAtSet
            IN  /\ hist[t].setOutcome = "panic" <=> (arg # Nil /\ arg = cur)
                /\ hist[t].setOutcome # "panic" => hist[t].setOutcome = "assign"
                /\ pc[t] = "unlock" =>
                     configuration = (IF hist[t].setOutcome = "panic" THEN cur ELSE arg)
                /\ (hist[t].setOutcome = "panic" /\ pc[t] # "unlock") =>
                     (pc[t] = "panicked" /\ crashed)

\* C1's case: the current, zero-valued snapshot was published again and the
\* call panicked.
C1_Witness ==
    \E t \in Setters :
        /\ pc[t] = "panicked"
        /\ heap[loc[t].cfg] = ZeroConfiguration

\* The fields a reader has read so far, against the snapshot that was
\* current when getConfiguration read p.configuration.
ReadSoFarMatches(t) ==
    \A k \in 1..Len(loc[t].seen) : loc[t].seen[k] = hist[t].observed[FieldOrder[k]]

\* C2: whatever setConfiguration calls run concurrently, the fields a hook
\* reads through the reference getConfiguration returned are those of one
\* complete snapshot: the one that was current when getConfiguration read
\* p.configuration, which is a configuration that was loaded whole, or the
\* zero-valued snapshot when nothing had been published.
C2_CompleteSnapshot ==
    \A t \in Readers :
        /\ ReadSoFarMatches(t)
        /\ pc[t] \in {"runlock", "use", "done"} =>
              IF loc[t].got = t
                THEN hist[t].observed = ZeroConfiguration
                ELSE hist[t].observed \in SampleConfigurations

\* C2's case: a reader is still reading the fields of the snapshot it was
\* given while a setConfiguration call has replaced that snapshot.
C2_Witness ==
    \E t \in Readers :
        /\ pc[t] = "use"
        /\ Len(loc[t].seen) >= 1
        /\ loc[t].got # t
        /\ configuration # loc[t].got
        /\ heap[configuration] # heap[loc[t].got]

\* The snapshot an OnConfigurationChange call loaded.
Loaded(t) == heap[loc[t].cfg]

Validated == {t \in Changes : hist[t].valid # "none"}

EmptyFields(c) == {f \in Fields : c[f] = EmptyStr}

\* C3, as stated: whenever a field is empty IsValid fails with an error that
\* names that field, whatever the other fields hold.
C3_NamesEveryEmptyField ==
    \A t \in Validated :
        \A f \in EmptyFields(Loaded(t)) :
            /\ hist[t].valid \in ValidationErrors
            /\ f \in ErrorNames(hist[t].valid)

WellCounted(tc) == Count(tc, ",") + 1 = Count(tc, "/")

\* C3, amended: IsValid fails for every snapshot with an empty field, and the
\* error is that of the first failing check in the order Username,
\* TeamsChannels empty, TeamsChannels format, BotUsername, BotIconURL: an
\* empty field is named when every check ahead of it passes.
C3_FirstFailingCheck ==
    \A t \in Validated :
        LET c == Loaded(t)
            err == hist[t].valid
        IN  /\ EmptyFields(c) # {} => err \in ValidationErrors
            /\ c.Username = EmptyStr => err = ErrUsername
            /\ (c.Username # EmptyStr /\ c.TeamsChannels = EmptyStr) => err = ErrTeamsChannels
            /\ (c.Username # EmptyStr /\ c.TeamsChannels # EmptyStr /\ WellCounted(c.TeamsChannels)
                  /\ c.BotUsername = EmptyStr) => err = ErrBotUsername
            /\ (c.Username # EmptyStr /\ c.TeamsChannels # EmptyStr /\ WellCounted(c.TeamsChannels)
                  /\ c.BotUsername # EmptyStr /\ c.BotIconURL = EmptyStr) => err = ErrBotIconURL
            /\ err \in {ErrUsername, ErrTeamsChannels, ErrBotUsername, ErrBotIconURL}
                  => ErrorNames(err) \cap EmptyFields(c) # {}

\* C3's case: BotUsername and BotIconURL are both empty and the error names
\* the first of them only.
C3_Witness ==
    \E t \in Validated :
        /\ hist[t].valid = ErrBotUsername
        /\ Loaded(t).BotIconURL = EmptyStr

\* C4: a snapshot IsValid accepts has a non-empty TeamsChannels whose every
\* comma-separated entry contains exactly one "/", and once
\* parseChannelsFromConfig is entered for it, it never ends with the "Bad
\* formatted TeamsChannels" error.
C4_ValidImpliesWellFormed ==
    \A t \in Validated :
        (hist[t].valid = NoError /\ loc[t].i >= 1) =>
            LET entries == Entries(loc[t].cfg)
            IN  /\ Loaded(t).TeamsChannels # EmptyStr
                /\ \A k \in 1..Len(entries) : Count(entries[k], "/") = 1
                /\ loc[t].err # ErrBadFormat

\* C5: a call whose snapshot fails validation returns the validation error
\* with the snapshot already published by setConfiguration, without any host
\* lookup and without storing BotUserID or ChannelsID; a call whose
\* LoadPluginConfiguration failed returns without having called
\* setConfiguration, so that what was published before stays current.
C5_InvalidSnapshotPublished ==
    \A t \in Changes :
        /\ (t \in Validated /\ hist[t].valid # NoError) =>
              /\ pc[t] = "done"
              /\ loc[t].err = hist[t].valid
              /\ loc[t].err \in ValidationErrors
              /\ hist[t].setOutcome = "assign"
              /\ configuration # Nil
              /\ (\A u \in Changes \ {t} : hist[u].setOutcome = "none") =>
                    configuration = loc[t].cfg
              /\ hist[t].calls = << >>
              /\ hist[t].wrote = {}
        /\ loc[t].err = ErrLoad =>
              /\ pc[t] = "done"
              /\ hist[t].setOutcome = "none"
              /\ loc[t].cfg = Nil
              /\ configuration # t
              /\ hist[t].calls = << >>
              /\ hist[t].wrote = {}

\* C5's case: a call has returned a validation error, its invalid snapshot
\* is the current one, and BotUserID and ChannelsID still hold what was
\* resolved from the snapshot published before.
C5_Witness ==
    \E t \in Changes :
        /\ pc[t] = "done"
        /\ loc[t].err \in ValidationErrors
        /\ configuration = loc[t].cfg
        /\ IsValid(heap[configuration]) # NoError
        /\ BotUserID = UserIdOf(ConfigA.Username)
        /\ ChannelsID # << >>

\* The channel identifiers of the first n entries of a TeamsChannels string,
\* each resolved through its team.
RECURSIVE ResolvedPairs(_, _)
ResolvedPairs(entries, n) ==
    IF n = 0 THEN << >>
    ELSE LET v == Split(entries[n], "/")
         IN  Append(ResolvedPairs(entries, n - 1), ChannelIdOf(TeamIdOf(v[1]), v[2]))

ResolvedChannels(c) ==
    LET entries == Split(c.TeamsChannels, ",") IN ResolvedPairs(entries, Len(entries))

\* C6: once two or more concurrent OnConfigurationChange calls have all
\* returned nil, BotUserID and ChannelsID are the values resolved from the
\* snapshot getConfiguration returns.
C6_DerivedStateMatchesSnapshot ==
    ( /\ Cardinality(Changes) >= 2
      /\ \A t \in Threads : pc[t] \in {"idle", "done"}
      /\ \A t \in Changes : loc[t].err = NoError )
    => /\ BotUserID = UserIdOf(heap[configuration].Username)
       /\ ChannelsID = ResolvedChannels(heap[configuration])

HoldsLock(t) == writer = t \/ t \in readers

Running == {t \in Threads : pc[t] \notin {"idle"} \cup Finished}

\* A goroutine's next step is possible.
CanStep(t) ==
    CASE pc[t] \in HostCallPcs -> HostReady(t)
      [] pc[t] = "locked" -> writer = 0 /\ readers = {}
      [] pc[t] = "rlock" -> writer = 0 /\ pendingW = {}
      [] OTHER -> TRUE

\* C7: a hook that is inside a host API call holds the configuration lock
\* in no mode and is not waiting for it; the lock is held only from its
\* acquisition to the deferred release that follows; and while a hook is
\* running, one of the running hooks can take its next step (no deadlock),
\* hooks the host runs during an API call included.
C7_NoHostCallUnderLock ==
    /\ \A t \in Threads :
          /\ pc[t] \in HostCallPcs => (~HoldsLock(t) /\ t \notin pendingW)
          /\ writer = t => pc[t] = "unlock"
          /\ t \in readers => pc[t] = "runlock"
    /\ (Running # {} /\ ~crashed) => \E t \in Running : CanStep(t)

\* C7's case: a hook the host runs during another hook's API call holds
\* the configuration lock.
C7_Witness ==
    \E t \in Threads :
        /\ pc[t] \in HostCallPcs
        /\ loc[t].waitOn # 0
        /\ HoldsLock(loc[t].waitOn)

CallsFor(t, i) == {k \in 1..Len(hist[t].calls) : hist[t].calls[k].entry = i}

\* The calls parseChannelsFromConfig has entered.
Parsing == {t \in Changes : loc[t].i >= 1}

TwoNonEmptyParts(entry) ==
    LET v == Split(entry, "/")
    IN  Len(v) = 2 /\ v[1] # EmptyStr /\ v[2] # EmptyStr

\* C8, as stated: an entry that does not split on "/" into exactly two
\* non-empty parts makes the operation fail at once, with no GetTeamByName
\* or GetChannelByName call for that entry.
C8_NonEmptyParts ==
    \A t \in Parsing :
        \A i \in 1..Len(Entries(loc[t].cfg)) :
            ~TwoNonEmptyParts(Entries(loc[t].cfg)[i]) => CallsFor(t, i) = {}

\* C8, amended: an entry that does not split on "/" into exactly two parts
\* makes the operation fail at once with the "Bad formatted" error, with no
\* GetTeamByName or GetChannelByName call for that entry or a later one; the
\* parts themselves are not checked, and an entry with an empty team or
\* channel name is looked up like any other.
C8_ExactlyTwoParts ==
    \A t \in Parsing :
        LET entries == Entries(loc[t].cfg)
            i == loc[t].i
        IN  /\ \A j \in 1..Len(entries) :
                  Len(Split(entries[j], "/")) # 2 =>
                      /\ CallsFor(t, j) = {}
                      /\ j <= i => (j = i /\ pc[t] = "done" /\ loc[t].err = ErrBadFormat)
            /\ loc[t].err = ErrBadFormat =>
                  /\ i <= Len(entries)
                  /\ Len(Split(entries[i], "/")) # 2
                  /\ \A j \in i..Len(entries) : CallsFor(t, j) = {}
            /\ \A j \in 1..Len(entries) :
                  (j < i /\ Len(Split(entries[j], "/")) = 2) => CallsFor(t, j) # {}
            /\ (pc[t] = "channel" \/ loc[t].err \in {ErrTeam, ErrChannel}) =>
                  CallsFor(t, i) # {}

\* C8's case: an entry does not split into two parts and the call has ended
\* with the "Bad formatted" error after the user lookup only.
C8_Witness ==
    \E t \in Parsing :
        /\ pc[t] = "done"
        /\ loc[t].err = ErrBadFormat
        /\ Len(hist[t].calls) = 1

LastCall(t) == hist[t].calls[Len(hist[t].calls)]

\* C9, as stated: when GetTeamByName fails, no GetChannelByName call is made
\* for that pair, no lookup for a later pair, the result returned with the
\* error holds none of the identifiers resolved for earlier pairs, and the
\* call does not store ChannelsID.
C9_ResultDiscarded ==
    \A t \in Changes :
        loc[t].err = ErrTeam =>
            /\ LastCall(t).api = "GetTeamByName"
            /\ LastCall(t).entry = loc[t].i
            /\ \A k \in 1..Len(hist[t].calls) : hist[t].calls[k].entry <= loc[t].i
            /\ loc[t].ret = << >>
            /\ "ChannelsID" \notin hist[t].wrote

\* C9, amended: when GetTeamByName fails, no GetChannelByName call is made
\* for that pair and no lookup for a later pair; the slice returned with
\* the error still holds the identifiers resolved for the earlier pairs, but
\* OnConfigurationChange drops it and does not store ChannelsID.
C9_ResultReturnedButNotStored ==
    \A t \in Changes :
        loc[t].err = ErrTeam =>
            /\ pc[t] = "done"
            /\ LastCall(t).api = "GetTeamByName"
            /\ LastCall(t).entry = loc[t].i
            /\ \A k \in 1..Len(hist[t].calls) : hist[t].calls[k].entry <= loc[t].i
            /\ loc[t].ret = ResolvedPairs(Entries(loc[t].cfg), loc[t].i - 1)
            /\ "ChannelsID" \notin hist[t].wrote

\* C9's case: the first pair was resolved and the team of the second is
\* unknown.
C9_Witness ==
    \E t \in Changes :
        /\ loc[t].err = ErrTeam
        /\ loc[t].i = 2
        /\ Len(loc[t].ret) = 1

\* C10: after a call has returned, BotUserID and ChannelsID were both stored
\* by it (it returned nil) or neither was (it returned an error).
C10_DerivedStateAsPair ==
    \A t \in Changes :
        pc[t] = "done" =>
            \/ loc[t].err = NoError /\ hist[t].wrote = {"BotUserID", "ChannelsID"}
            \/ loc[t].err # NoError /\ hist[t].wrote = {}

====
